---- MODULE Spec2Model ----
(***************************************************************************)
(* Model of emmet.core.structure_group:                                    *)
(*   generic_groupby                  (step by step, specification Spec)   *)
(*   StructureGroupDoc.from_ungrouped_structure_entries and its helpers    *)
(*                                    (specification DocSpec)              *)
(* Python lists are 0-based; the sequences below are 1-based, so index k   *)
(* of the model is index k-1 of the code.  Label values are not shifted.   *)
(***************************************************************************)
EXTENDS Integers, Sequences, FiniteSets, TLC

\* longest list_in handed to generic_groupby in Spec
MaxLen == 4

\* the sentinel generic_groupby fills list_out with
Unset == -1

VARIABLES
    list_in,     \* generic_groupby: the input list (opaque items)
    comp,        \* generic_groupby: the comparator, as the set of pairs it accepts
    list_out,    \* generic_groupby: the label list
    label_num,   \* generic_groupby: the label counter
    i1,          \* generic_groupby: index of the outer loop (0 before the loop)
    i2,          \* generic_groupby: index of the inner loop
    evaluated,   \* history: the index pairs on which comp returned true
    pc           \* generic_groupby: "for_i1", "for_i2" or "done"

gvars == <<list_in, comp, list_out, label_num, i1, i2, evaluated, pc>>

VARIABLES
    entries,          \* from_ungrouped_structure_entries: the caller's list of entries
    ignored_species,  \* its ignored_species argument, as a set
    fit,              \* sm.fit(.., symmetric=True): the pairs of structures that fit
    framework_groups, \* the buckets the groupby iterator has still to deliver
    cnt_,             \* the counter of grouped entries
    results,          \* the documents to return (the order of the list is not modelled)
    built,            \* history: every document from_grouped_entries has returned
    fitCalls,         \* history: the pairs of entries sm.fit was evaluated on
    dpc               \* "tag", "sort", "loop", "done" or "error"

dvars == <<entries, ignored_species, fit, framework_groups, cnt_, results,
           built, fitCalls, dpc>>

vars == <<gvars, dvars>>

----------------------------------------------------------------------------
\* generic_groupby, lines 16-39

\* [-1] * len(list_in)
InitialLabels(items) == [k \in 1..Len(items) |-> Unset]

\* `list_out[i2] is None`: list_out only ever holds integers (the -1 it is
\* created with and the integers stored at lines 30 and 36), and no integer
\* is None
IsNone(v) == v \notin Int

\* `if ls1 != -1: continue`
AlreadyLabelled(ls1) == ls1 # Unset

\* variant of AdvanceLabel: the counter is not advanced
AdvanceLabelStuck(lab) == lab

\* label_num += 1 (line 38)
AdvanceLabel(lab) == lab + 1

\* variant of InnerBody: a merge also relabels the earlier indices that
\* share the label of a
InnerBodyRelabel(out, lab, a, b, hit) ==
    IF hit
    THEN [list_out  |-> [k \in DOMAIN out |->
                            IF k < a /\ out[k] = out[a] THEN out[b] ELSE
                            IF k = a THEN out[b] ELSE out[k]],
          label_num |-> lab - 1]
    ELSE [list_out |-> out, label_num |-> lab]

\* the body of the inner loop, lines 32-37, for outer index a and inner
\* index b; hit is the value of comp(list_in[a], list_in[b])
InnerBody(out, lab, a, b, hit) ==
    IF hit
    THEN IF IsNone(out[b])
         THEN [list_out  |-> [out EXCEPT ![b] = out[a]], label_num |-> lab]
         ELSE [list_out  |-> [out EXCEPT ![a] = out[b]], label_num |-> lab - 1]
    ELSE [list_out |-> out, label_num |-> lab]

\* comp(list_in[i1], list_in[i2])
Compare(cmp, items, a, b) == <<items[a], items[b]>> \in cmp

\* the comparators of Spec: comp is only called with the earlier item first,
\* so it is drawn from the relations that agree in both directions; the
\* diagonal is free
Comparators(n) ==
    { up \cup { <<p[2], p[1]>> : p \in up } :
        up \in SUBSET { p \in (1..n) \X (1..n) : p[1] <= p[2] } }

Init ==
    /\ \E n \in 0..MaxLen :
          /\ list_in = [k \in 1..n |-> k]
          /\ comp \in Comparators(n)
    /\ list_out = InitialLabels(list_in)
    /\ label_num = 0
    /\ i1 = 0
    /\ i2 = 0
    /\ evaluated = {}
    /\ pc = "for_i1"
    /\ entries = <<>>
    /\ ignored_species = {}
    /\ fit = {}
    /\ framework_groups = <<>>
    /\ cnt_ = 0
    /\ results = {}
    /\ built = {}
    /\ fitCalls = {}
    /\ dpc = "idle"

\* lines 27-30: the outer loop takes its next index
OuterStep ==
    /\ pc = "for_i1"
    /\ i1 < Len(list_out)
    /\ i1' = i1 + 1
    /\ IF AlreadyLabelled(list_out[i1 + 1])
       THEN UNCHANGED <<list_out, i2, pc>>
       ELSE /\ list_out' = [list_out EXCEPT ![i1 + 1] = label_num]
            /\ i2' = i1 + 1
            /\ pc' = "for_i2"
    /\ UNCHANGED <<list_in, comp, label_num, evaluated>>
    /\ UNCHANGED dvars

\* lines 31-37: the inner loop takes its next index
InnerStep ==
    /\ pc = "for_i2"
    /\ i2 < Len(list_out)
    /\ i2' = i2 + 1
    /\ LET hit == Compare(comp, list_in, i1, i2 + 1)
           r   == InnerBody(list_out, label_num, i1, i2 + 1, hit)
       IN  /\ list_out' = r.list_out
           /\ label_num' = r.label_num
           /\ evaluated' = IF hit THEN evaluated \cup {<<i1, i2 + 1>>}
                                  ELSE evaluated
    /\ UNCHANGED <<list_in, comp, i1, pc>>
    /\ UNCHANGED dvars

\* line 38: the inner loop is exhausted
OuterEnd ==
    /\ pc = "for_i2"
    /\ i2 = Len(list_out)
    /\ label_num' = AdvanceLabel(label_num)
    /\ pc' = "for_i1"
    /\ UNCHANGED <<list_in, comp, list_out, i1, i2, evaluated>>
    /\ UNCHANGED dvars

\* line 39: the outer loop is exhausted
Return ==
    /\ pc = "for_i1"
    /\ i1 = Len(list_out)
    /\ pc' = "done"
    /\ UNCHANGED <<list_in, comp, list_out, label_num, i1, i2, evaluated>>
    /\ UNCHANGED dvars

\* generic_groupby as a function: the same loops, run to completion.  Returns
\* the labels and the index pairs comp was evaluated on.
RECURSIVE InnerLoop(_, _, _, _, _, _)
InnerLoop(out, lab, a, b, items, cmp) ==
    IF b > Len(out)
    THEN [list_out |-> out, label_num |-> lab]
    ELSE LET r == InnerBody(out, lab, a, b, Compare(cmp, items, a, b))
         IN  InnerLoop(r.list_out, r.label_num, a, b + 1, items, cmp)

RECURSIVE OuterLoop(_, _, _, _, _, _)
OuterLoop(out, lab, a, items, cmp, calls) ==
    IF a > Len(out)
    THEN [labels |-> out, calls |-> calls]
    ELSE IF AlreadyLabelled(out[a])
         THEN OuterLoop(out, lab, a + 1, items, cmp, calls)
         ELSE LET r == InnerLoop([out EXCEPT ![a] = lab], lab, a, a + 1, items, cmp)
              IN  OuterLoop(r.list_out, AdvanceLabel(r.label_num), a + 1, items, cmp,
                            calls \cup { <<a, b>> : b \in (a + 1)..Len(out) })

generic_groupby(items, cmp) ==
    OuterLoop(InitialLabels(items), 0, 1, items, cmp, {})

----------------------------------------------------------------------------
\* pymatgen's Composition, as far as structure_group.py uses it

Elements == {"Fe", "Li", "Na", "O"}

\* Composition.as_dict(): the amounts of the elements that are present
as_dict(c) == [e \in {x \in DOMAIN c : c[x] > 0} |-> c[e]]

RECURSIVE GCD(_, _)
GCD(a, b) == IF b = 0 THEN a ELSE GCD(b, a % b)

RECURSIVE GCDOf(_, _)
GCDOf(d, keys) ==
    IF keys = {} THEN 0
    ELSE LET k == CHOOSE x \in keys : TRUE
         IN  GCD(d[k], GCDOf(d, keys \ {k}))

\* the order in which a formula lists its elements (by electronegativity)
FormulaOrder == <<"Na", "Li", "Fe", "O">>

\* A formula string is modelled as the sequence of its symbols and amounts:
\* "LiFe2O2" is <<"Li", "Fe", "2", "O", "2">>, "" is <<>>.
RECURSIVE Render(_, _, _)
Render(d, g, k) ==
    IF k > Len(FormulaOrder) THEN <<>>
    ELSE LET e == FormulaOrder[k]
         IN  (IF e \in DOMAIN d
              THEN <<e>> \o (IF d[e] \div g = 1 THEN <<>> ELSE <<ToString(d[e] \div g)>>)
              ELSE <<>>) \o Render(d, g, k + 1)

\* Composition.from_dict(d).reduced_formula: the amounts divided by their
\* greatest common divisor
reduced_formula(d) ==
    IF DOMAIN d = {} THEN <<>> ELSE Render(d, GCDOf(d, DOMAIN d), 1)

\* the amount an amount token stands for
AmountOf(tok) == CHOOSE n \in 2..99 : ToString(n) = tok

\* Composition(formula).as_dict()
RECURSIVE ParseFormula(_, _)
ParseFormula(f, k) ==
    IF k > Len(f) THEN <<>>
    ELSE IF k < Len(f) /\ f[k + 1] \notin Elements
         THEN (f[k] :> AmountOf(f[k + 1])) @@ ParseFormula(f, k + 2)
         ELSE (f[k] :> 1) @@ ParseFormula(f, k + 1)

\* the literal 'ignored'
Ignored == <<"ignored">>

\* Python's order of the characters a formula string starts its tokens with:
\* digits, then upper case, then lower case
TokenOrder == <<"2", "3", "4", "5", "6", "7", "8", "9",
                "Fe", "Li", "Na", "O", "ignored">>

TokenRank(tok) == CHOOSE k \in 1..Len(TokenOrder) : TokenOrder[k] = tok

\* str.__lt__ on two formula strings
RECURSIVE StrLess(_, _, _)
StrLess(f, g, k) ==
    IF k > Len(g) THEN FALSE
    ELSE IF k > Len(f) THEN TRUE
    ELSE IF f[k] = g[k] THEN StrLess(f, g, k + 1)
    ELSE TokenRank(f[k]) < TokenRank(g[k])

----------------------------------------------------------------------------
\* _get_framework, lines 231-242; formula is a formula string
_get_framework(formula, ignored) ==
    LET dd_ == ParseFormula(formula, 1)
    IN  IF DOMAIN dd_ = ignored
        THEN Ignored
        ELSE reduced_formula([e \in DOMAIN dd_ \ ignored |-> dd_[e]])

----------------------------------------------------------------------------
\* entry ids and _get_id_num, lines 222-228
\* An id is [int |-> TRUE, num |-> n, chars |-> <<>>] for the Python int n
\* and [int |-> FALSE, num |-> 0, chars |-> s] for the Python str s, a
\* sequence of characters.

DigitChars == <<"0", "1", "2", "3", "4", "5", "6", "7", "8", "9">>

\* task_id.split("-")[-1]: what follows the last hyphen
RECURSIVE LastSegment(_)
LastSegment(s) ==
    IF s = <<>> THEN <<>>
    ELSE IF s[Len(s)] = "-" THEN <<>>
    ELSE LastSegment(SubSeq(s, 1, Len(s) - 1)) \o <<s[Len(s)]>>

DigitValue(ch) == (CHOOSE k \in 1..10 : DigitChars[k] = ch) - 1

\* int(s) for a string of decimal digits
RECURSIVE ParseInt(_)
ParseInt(s) ==
    IF Len(s) = 1 THEN DigitValue(s[1])
    ELSE 10 * ParseInt(SubSeq(s, 1, Len(s) - 1)) + DigitValue(s[Len(s)])

\* variant of _get_id_num: only the leading digit of the number is read
GetIdNumLeadingDigit(task_id) ==
    IF task_id.int THEN task_id.num ELSE DigitValue(LastSegment(task_id.chars)[1])

_get_id_num(task_id) ==
    IF task_id.int THEN task_id.num ELSE ParseInt(LastSegment(task_id.chars))

\* min(ids, key=_get_id_num): the first of the ids with the smallest key
MinById(ids) ==
    LET best == CHOOSE k \in 1..Len(ids) :
                   /\ \A m \in 1..Len(ids) : _get_id_num(ids[k]) <= _get_id_num(ids[m])
                   /\ \A m \in 1..(k - 1) : _get_id_num(ids[m]) # _get_id_num(ids[k])
    IN  ids[best]

----------------------------------------------------------------------------
\* StructureGroupDoc.from_grouped_entries, lines 107-133

\* Python's order of the element symbols
SymbolOrder == <<"Fe", "Li", "Na", "O">>

\* sorted(symbols)
RECURSIVE SortedSymbols(_, _)
SortedSymbols(syms, k) ==
    IF k > Len(SymbolOrder) THEN <<>>
    ELSE (IF SymbolOrder[k] \in syms THEN <<SymbolOrder[k]>> ELSE <<>>)
         \o SortedSymbols(syms, k + 1)

\* "-".join(seq)
RECURSIVE JoinHyphen(_)
JoinHyphen(seq) ==
    IF seq = <<>> THEN ""
    ELSE IF Len(seq) = 1 THEN seq[1]
    ELSE seq[1] \o "-" \o JoinHyphen(Tail(seq))

\* the atoms the chemsys lists (line 129)
ChemsysAtoms(all_atoms, ignored) == all_atoms \cup ignored

from_grouped_entries(group, ignored, structure_matched) ==
    LET all_atoms    == UNION { DOMAIN as_dict(group[k].composition) : k \in 1..Len(group) }
        all_comps    == { reduced_formula(as_dict(group[k].composition)) : k \in 1..Len(group) }
        common_atoms == all_atoms \ ignored
        framework_str ==
            IF Cardinality(common_atoms) = 0
            THEN Ignored
            ELSE reduced_formula([k \in common_atoms |-> as_dict(group[1].composition)[k]])
        ids == [k \in 1..Len(group) |-> group[k].entry_id]
    IN  [material_id               |-> MinById(ids),
         grouped_ids               |-> ids,
         structure_matched         |-> structure_matched,
         framework_formula         |-> framework_str,
         ignored_species           |-> SortedSymbols(ignored, 1),
         chemsys                   |-> JoinHyphen(SortedSymbols(ChemsysAtoms(all_atoms, ignored), 1)),
         has_distinct_compositions |-> Cardinality(all_comps) > 1]

----------------------------------------------------------------------------
\* group_entries_with_structure_matcher, lines 203-219

\* the comparator handed to generic_groupby (line 215), on the entries of g
FitComparator(g, fits) ==
    { p \in { <<g[a], g[b]>> : a, b \in 1..Len(g) } :
        <<p[1].structure, p[2].structure>> \in fits }

\* [g[itr] for itr, jlab in enumerate(labs) if jlab == ilab]
RECURSIVE SubGroup(_, _, _, _)
SubGroup(g, labs, ilab, k) ==
    IF k > Len(g) THEN <<>>
    ELSE (IF labs[k] = ilab THEN <<g[k]>> ELSE <<>>) \o SubGroup(g, labs, ilab, k + 1)

\* variant of SubGroups: the label -1 is taken for "no group"
SubGroupsSkipUnset(g, labs) ==
    { SubGroup(g, labs, ilab, 1) : ilab \in { labs[k] : k \in 1..Len(labs) } \ {Unset} }

\* the sub-groups the generator yields, one per label of set(labs)
SubGroups(g, labs) ==
    { SubGroup(g, labs, ilab, 1) : ilab \in { labs[k] : k \in 1..Len(labs) } }

group_entries_with_structure_matcher(g, fits) ==
    SubGroups(g, generic_groupby(g, FitComparator(g, fits)).labels)

\* the entry pairs generic_groupby hands to the comparator for the list g
ComparedPairs(g, fits) ==
    { <<g[p[1]], g[p[2]]>> : p \in generic_groupby(g, FitComparator(g, fits)).calls }

----------------------------------------------------------------------------
\* StructureGroupDoc.from_ungrouped_structure_entries, lines 155-200

\* most entries handed to from_ungrouped_structure_entries in DocSpec
MaxEntries == 3

\* the compositions the entries of DocSpec are drawn from:
\* Li, Fe2O2 (a cell of FeO), LiFe2O2 and NaFeO
Compositions ==
    { [Fe |-> 0, Li |-> 1, Na |-> 0, O |-> 0],
      [Fe |-> 2, Li |-> 0, Na |-> 0, O |-> 2],
      [Fe |-> 2, Li |-> 1, Na |-> 0, O |-> 2],
      [Fe |-> 1, Li |-> 0, Na |-> 1, O |-> 1] }

\* the ignored_species arguments of DocSpec
IgnoredChoices == SUBSET {"Li", "Na"}

\* the ids of DocSpec: mp-105, mp-7, mvc-1000, the int 12, a-b-9, mp-40
IdSpecs ==
    << [int |-> FALSE, prefix |-> <<"m", "p">>,      num |-> 105],
       [int |-> FALSE, prefix |-> <<"m", "p">>,      num |-> 7],
       [int |-> FALSE, prefix |-> <<"m", "v", "c">>, num |-> 1000],
       [int |-> TRUE,  prefix |-> <<>>,              num |-> 12],
       [int |-> FALSE, prefix |-> <<"a", "-", "b">>, num |-> 9],
       [int |-> FALSE, prefix |-> <<"m", "p">>,      num |-> 40] >>

\* str(n) for n >= 0
RECURSIVE Digits(_)
Digits(n) ==
    IF n < 10 THEN <<DigitChars[n + 1]>>
    ELSE Digits(n \div 10) \o <<DigitChars[(n % 10) + 1]>>

\* the id an IdSpecs record stands for: the int num, or "prefix-num"
MakeId(sp) ==
    IF sp.int THEN [int |-> TRUE, num |-> sp.num, chars |-> <<>>]
    ELSE [int |-> FALSE, num |-> 0, chars |-> sp.prefix \o <<"-">> \o Digits(sp.num)]

\* the ways DocSpec deals the ids to the entries: entry k gets the id
\* number (k * stride) modulo Len(IdSpecs) + 1
IdStrides == {1, 2}

IdOfEntry(k, stride) == MakeId(IdSpecs[(k * stride) % (Len(IdSpecs) + 1)])

\* entries.sort(key=lambda x: x.data["framework"]): stable
RECURSIVE InsertByFramework(_, _)
InsertByFramework(sorted, e) ==
    IF sorted = <<>> THEN <<e>>
    ELSE IF StrLess(e.data["framework"], sorted[Len(sorted)].data["framework"], 1)
         THEN InsertByFramework(SubSeq(sorted, 1, Len(sorted) - 1), e)
              \o <<sorted[Len(sorted)]>>
         ELSE sorted \o <<e>>

RECURSIVE SortByFramework(_)
SortByFramework(es) ==
    IF es = <<>> THEN <<>>
    ELSE InsertByFramework(SortByFramework(SubSeq(es, 1, Len(es) - 1)), es[Len(es)])

\* groupby(entries, key=lambda x: x.data["framework"]): the runs of equal key
RECURSIVE GroupByFramework(_)
GroupByFramework(es) ==
    IF es = <<>> THEN <<>>
    ELSE LET rest == GroupByFramework(Tail(es))
         IN  IF rest # <<>> /\ rest[1][1].data["framework"] = es[1].data["framework"]
             THEN <<(<<es[1]>> \o rest[1])>> \o Tail(rest)
             ELSE <<(<<es[1]>>)>> \o rest

\* variant of IsIgnoredBucket: the 'ignored' bucket is not recognised
IsIgnoredBucketNever(framework) == FALSE

\* `if framework == "ignored"` (line 179)
IsIgnoredBucket(framework) == framework = Ignored

\* the sum of len(struct_group.grouped_ids) over a set of documents
RECURSIVE CountGrouped(_)
CountGrouped(docs) ==
    IF docs = {} THEN 0
    ELSE LET d == CHOOSE x \in docs : TRUE
         IN  Len(d.grouped_ids) + CountGrouped(docs \ {d})

GroupbyIdle ==
    /\ list_in = <<>>
    /\ comp = {}
    /\ list_out = <<>>
    /\ label_num = 0
    /\ i1 = 0
    /\ i2 = 0
    /\ evaluated = {}
    /\ pc = "idle"

\* sm.fit(x, y, symmetric=True) on n structures: agrees in both directions
Fits(n) ==
    { up \cup { <<p[2], p[1]>> : p \in up } :
        up \in SUBSET { p \in (1..n) \X (1..n) : p[1] < p[2] } }

DocInit ==
    /\ \E n \in 0..MaxEntries : \E stride \in IdStrides :
       \E comps \in [1..n -> Compositions] :
          /\ entries = [k \in 1..n |->
                           [entry_id    |-> IdOfEntry(k, stride),
                            composition |-> comps[k],
                            structure   |-> k,
                            data        |-> <<>>]]
          /\ fit \in Fits(n)
    /\ ignored_species \in IgnoredChoices
    /\ framework_groups = <<>>
    /\ cnt_ = 0
    /\ results = {}
    /\ built = {}
    /\ fitCalls = {}
    /\ dpc = "tag"
    /\ GroupbyIdle

\* lines 166-169
TagFrameworks ==
    /\ dpc = "tag"
    /\ entries' = [k \in 1..Len(entries) |->
                     [entries[k] EXCEPT !.data =
                        ("framework" :>
                            _get_framework(reduced_formula(as_dict(entries[k].composition)),
                                           ignored_species)) @@ @]]
    /\ dpc' = "sort"
    /\ UNCHANGED <<ignored_species, fit, framework_groups, cnt_, results, built, fitCalls>>
    /\ UNCHANGED gvars

\* lines 172-175
SortEntries ==
    /\ dpc = "sort"
    /\ entries' = SortByFramework(entries)
    /\ framework_groups' = GroupByFramework(entries')
    /\ cnt_' = 0
    /\ dpc' = "loop"
    /\ UNCHANGED <<ignored_species, fit, results, built, fitCalls>>
    /\ UNCHANGED gvars

\* lines 176-184: the next bucket is the 'ignored' one
ProcessIgnoredBucket ==
    /\ dpc = "loop"
    /\ framework_groups # <<>>
    /\ IsIgnoredBucket(framework_groups[1][1].data["framework"])
    /\ LET f_group_l    == framework_groups[1]
           struct_group == from_grouped_entries(f_group_l, ignored_species, FALSE)
       IN  /\ cnt_' = cnt_ + Len(struct_group.grouped_ids)
           /\ built' = built \cup {struct_group}
    /\ framework_groups' = Tail(framework_groups)
    /\ UNCHANGED <<entries, ignored_species, fit, results, fitCalls, dpc>>
    /\ UNCHANGED gvars

\* lines 176-179 and 186-194: the next bucket is structure-matched
ProcessMatchedBucket ==
    /\ dpc = "loop"
    /\ framework_groups # <<>>
    /\ ~IsIgnoredBucket(framework_groups[1][1].data["framework"])
    /\ LET f_group_l == framework_groups[1]
           docs == { from_grouped_entries(g, ignored_species, TRUE) :
                        g \in group_entries_with_structure_matcher(f_group_l, fit) }
       IN  /\ cnt_' = cnt_ + CountGrouped(docs)
           /\ results' = results \cup docs
           /\ built' = built \cup docs
           /\ fitCalls' = fitCalls \cup ComparedPairs(f_group_l, fit)
    /\ framework_groups' = Tail(framework_groups)
    /\ UNCHANGED <<entries, ignored_species, fit, dpc>>
    /\ UNCHANGED gvars

\* lines 195-200
CheckCount ==
    /\ dpc = "loop"
    /\ framework_groups = <<>>
    /\ dpc' = IF cnt_ # Len(entries) THEN "error" ELSE "done"
    /\ UNCHANGED <<entries, ignored_species, fit, framework_groups, cnt_, results,
                   built, fitCalls>>
    /\ UNCHANGED gvars

DocNext ==
    TagFrameworks \/ SortEntries \/ ProcessIgnoredBucket \/ ProcessMatchedBucket
    \/ CheckCount

DocSpec == DocInit /\ [][DocNext]_vars

----------------------------------------------------------------------------
Next == OuterStep \/ InnerStep \/ OuterEnd \/ Return

Spec == Init /\ [][Next]_vars

----------------------------------------------------------------------------
\* Properties of generic_groupby (specification Spec)

Indices == 1..Len(list_in)

Reflexive  == \A a \in Indices : Compare(comp, list_in, a, a)
Symmetric  == \A a, b \in Indices :
                 Compare(comp, list_in, a, b) <=> Compare(comp, list_in, b, a)
Transitive == \A a, b, c \in Indices :
                 Compare(comp, list_in, a, b) /\ Compare(comp, list_in, b, c)
                    => Compare(comp, list_in, a, c)
PairwiseFalse == \A a, b \in Indices : a # b => ~Compare(comp, list_in, a, b)

\* C1: for a reflexive, symmetric and transitive comparator the returned
\* labels induce exactly the comparator's equivalence classes: two indices
\* carry the same label if and only if the comparator holds between their items.
C1_LabelsArePartitionOfComparator ==
    (pc = "done" /\ Reflexive /\ Symmetric /\ Transitive)
        => \A a, b \in Indices :
              (list_out[a] = list_out[b]) <=> Compare(comp, list_in, a, b)

\* C2: for a reflexive, symmetric comparator, two indices i < j on which the
\* comparison returned true during the scan carry the same returned label.
C2_ComparedEqualShareLabel ==
    (pc = "done" /\ Reflexive /\ Symmetric)
        => \A p \in evaluated : list_out[p[1]] = list_out[p[2]]

\* C5: the output has the length of the input (so the empty input gives the
\* empty output), and when the comparator is false on every pair of distinct
\* indices the returned labels are pairwise distinct.
C5_PairwiseFalseGivesDistinctLabels ==
    pc = "done" =>
        /\ Len(list_out) = Len(list_in)
        /\ (list_in = <<>> => list_out = <<>>)
        /\ (PairwiseFalse =>
               \A a, b \in Indices : a # b => list_out[a] # list_out[b])

C5_Witness ==
    /\ pc = "done"
    /\ Len(list_in) >= 3
    /\ PairwiseFalse
    /\ Cardinality({ list_out[a] : a \in Indices }) = Len(list_in)

\* the scan of index k is over: the outer loop is past k, or is at k with
\* the inner loop exhausted
ScanFinished(k) ==
    \/ k < i1
    \/ k = i1 /\ (pc # "for_i2" \/ i2 = Len(list_out))

\* C9: no step changes the label of an index whose own scan is over (so the
\* label it holds then is the label returned), no step changes list_in, and
\* the step that ends the scan of an index advances the counter by exactly 1.
C9_NoRetroactiveRelabel ==
    [][ /\ \A k \in 1..Len(list_out) :
              ScanFinished(k) => list_out'[k] = list_out[k]
        /\ \A k \in 1..Len(list_out) : k < i1' => list_out'[k] = list_out[k]
        /\ list_in' = list_in
        /\ (pc = "for_i2" /\ pc' = "for_i1") => label_num' = label_num + 1
      ]_vars

C9_Witness ==
    /\ pc = "done"
    /\ Len(list_in) = MaxLen
    /\ \E p, q \in evaluated : p[1] < q[1]
    /\ \E a, b \in Indices : a < b /\ list_out[a] = list_out[b] /\ list_out[b] # Unset

----------------------------------------------------------------------------
\* Properties of from_ungrouped_structure_entries (specification DocSpec)

Range(seq) == { seq[k] : k \in 1..Len(seq) }

\* the entries a document groups
Members(d) == { k \in 1..Len(entries) : entries[k].entry_id \in Range(d.grouped_ids) }

\* the entries of the buckets still to be processed
Pending == UNION { Range(framework_groups[b]) : b \in 1..Len(framework_groups) }

\* the integer an id of IdSpecs ends with
TrailingInteger(id) ==
    (CHOOSE sp \in Range(IdSpecs) : MakeId(sp) = id).num

\* the framework of an entry: its composition without the ignored species,
\* in lowest terms
FrameworkOf(e) ==
    LET d    == as_dict(e.composition)
        keep == DOMAIN d \ ignored_species
    IN  [x \in keep |-> d[x] \div GCDOf(d, keep)]

\* C3: when from_ungrouped_structure_entries returns, the returned groups
\* account for every input entry exactly once: their grouped_ids lengths sum
\* to the number of entries and every entry id is in exactly one of them.
C3_ReturnedGroupsCoverEveryEntry ==
    dpc = "done" =>
        /\ CountGrouped(results) = Len(entries)
        /\ \A k \in 1..Len(entries) :
              Cardinality({ d \in results : k \in Members(d) }) = 1

C6_ChemsysListsPresentElements ==
    \A d \in built :
        d.chemsys = JoinHyphen(SortedSymbols(
            UNION { DOMAIN as_dict(entries[k].composition) : k \in Members(d) }, 1))

\* C7: sm.fit is evaluated only on two entries of the same framework,
\* neither of them tagged 'ignored', and the members of a returned group all
\* have the same framework.
C7_FitOnlyWithinFramework ==
    /\ \A p \in fitCalls :
          /\ FrameworkOf(p[1]) = FrameworkOf(p[2])
          /\ p[1].data["framework"] = p[2].data["framework"]
          /\ p[1].data["framework"] # Ignored
          /\ p[2].data["framework"] # Ignored
    /\ \A d \in results : \A k, m \in Members(d) :
          /\ FrameworkOf(entries[k]) = FrameworkOf(entries[m])
          /\ entries[k].data["framework"] = entries[m].data["framework"]

C7_Witness ==
    /\ dpc = "done"
    /\ \E p \in fitCalls : p[1].composition # p[2].composition
    /\ \E d \in results : \E k, m \in Members(d) :
          entries[k].composition # entries[m].composition

\* C8: an entry is tagged 'ignored' exactly when all its elements are
\* ignored species, and no returned group has framework_formula 'ignored'
\* together with structure_matched True.
C8_IgnoredExactlyWhenAllElementsIgnored ==
    dpc \in {"sort", "loop", "done"} =>
        /\ \A k \in 1..Len(entries) :
              (entries[k].data["framework"] = Ignored)
                 <=> (DOMAIN as_dict(entries[k].composition) \subseteq ignored_species)
        /\ \A d \in results :
              ~(d.framework_formula = Ignored /\ d.structure_matched)

\* C10: the consistency check never fails: the counter accounts for every
\* entry of the buckets processed so far, every structure-matched entry is
\* in exactly one returned group, and the error state is not reached.
C10_CountCheckNeverFails ==
    /\ dpc # "error"
    /\ dpc \in {"loop", "done"} =>
          /\ cnt_ + Cardinality(Pending) = Len(entries)
          /\ \A k \in 1..Len(entries) :
                (entries[k] \notin Pending /\ entries[k].data["framework"] # Ignored)
                   => Cardinality({ d \in results : k \in Members(d) }) = 1

C10_Witness ==
    /\ dpc = "done"
    /\ Len(entries) = 3
    /\ \E a, b, c \in 1..3 :
          /\ <<a, b>> \in fit /\ <<b, c>> \in fit /\ <<a, c>> \notin fit /\ a # c
          /\ \A k, m \in 1..3 : entries[k].data["framework"] = entries[m].data["framework"]
    /\ Cardinality(results) = 2

====
